---- MODULE Spec2Model ----
(***************************************************************************)
(* Make Ready Briefing: the client fetch orchestration (src/src/App.tsx    *)
(* and the earlier multi-proxy App kept at the end of                      *)
(* src/src/components/ReportGenerator.tsx) and the server-side enrichment  *)
(* run (src/supabase/functions/equips-proxy/index.ts).                     *)
(***************************************************************************)
EXTENDS Integers, Sequences, FiniteSets, TLC

\* ------------------------------------------------------------------------
\* Bounds of the model
\* ------------------------------------------------------------------------
MaxRec == 2
MaxCycles == 3
MaxUpstream == 2
MaxTasks == 2
MaxDated == 3
\* scaled-down stand-ins for pageSize = 500, maxRecords = 10000, BATCH_SIZE = 10
pageSize == 1
maxRecords == 2
BATCH_SIZE == 1

\* ------------------------------------------------------------------------
\* Program constants
\* ------------------------------------------------------------------------
NumStrategies == 5

VARIABLES
    variant,          \* which App is built: "single" (App.tsx) or "multi" (proxy strategies)
    data,             \* useState<ApiResponse | null>
    loading,          \* useState(false)
    error,            \* useState<string | null>
    usingCachedData,  \* useState(false)
    cacheTimestamp,   \* useState<string | null>
    storage,          \* localStorage: makeready_data_cache / makeready_data_cache_time
    pc,               \* where fetchData is suspended: "idle", "awaitFetch", "awaitBody"
    strategyIdx,      \* multi: index of the proxy strategy being tried
    lastError,        \* multi: let lastError: Error | null
    resOk,            \* response.ok of the response whose body is awaited
    clock,            \* the cycle's reading of new Date()
    lastStored,       \* history: the dataset of the latest cycle whose dataset write succeeded
    writtenBy,        \* history: the cycle that wrote each of the two cache entries
    cyc,              \* history of the current / last fetch cycle (observation only)
    evariant,         \* which equips-proxy handler: "parallel" or "sequential" pages
    epc,              \* where the handler is: "idle", "pages", "lookups", "done"
    upstream,         \* the service requests the upstream holds during the run
    pageResults,      \* parallel: the page promises
    page,             \* sequential: let page = 0
    allServiceRequests,
    relevant,
    uniqueStatusIds,
    batchStart,       \* the loop variable i of the batch loop
    inflight,         \* the promises of the current batch, by identifier
    statusNameMap,
    workflowNameMap,
    response,         \* the Response the handler returned
    requests,         \* history: the lookups issued in this run, in order
    replies,          \* history: how each lookup of this run settled
    pageLog,          \* history: the search pages requested in this run and their answers
    mounted,          \* ReportGenerator is on the page (App has data to show)
    originHandler,    \* history: the handler that enriched them, "none" for other entries
    origin,           \* history: the upstream records the rendered dataset was enriched from
    processedData,    \* ReportGenerator: the entries of the data prop
    normalizedData,   \* ReportGenerator: processedData.map(normalizeEntry)
    groupedData,      \* ReportGenerator: the date buckets, in the order they were created
    dateRange,        \* ReportGenerator: useState<[number, number]>([0, 100])
    effectRan,        \* the effect of [timelineMonths.length] has run since the mount
    effectNow,        \* history: the new Date() the effect read
    rangeSetBy        \* history: what set dateRange last: "useState", "effect", "slider", "reset"

fetchVars == <<variant, data, loading, error, usingCachedData, cacheTimestamp,
               storage, pc, strategyIdx, lastError, resOk, clock, lastStored, writtenBy, cyc>>

enrichVars == <<evariant, epc, upstream, pageResults, page, allServiceRequests, relevant,
                uniqueStatusIds, batchStart, inflight, statusNameMap, workflowNameMap,
                response, requests, replies, pageLog>>

reportVars == <<mounted, originHandler, origin, processedData, normalizedData, groupedData,
                dateRange, effectRan, effectNow, rangeSetBy>>

vars == <<fetchVars, enrichVars, reportVars>>

\* ------------------------------------------------------------------------
\* Values
\* ------------------------------------------------------------------------
Null == [kind |-> "null"]

\* rows of a dataset: record ids; 0 stands for a payload object wrapped as a row
Rows == {<<>>} \cup {<<r>> : r \in 1..MaxRec}

Dataset(rows, cols) == [kind |-> "dataset", data |-> rows, columns |-> cols]

\* an ISO-8601 string produced by new Date().toISOString()
Iso(t) == [kind |-> "iso", t |-> t]

\* new Date(cachedTime).toLocaleString()
toLocaleString(s) == [kind |-> "locale", t |-> s.t]

\* JSON.stringify: keys whose value is undefined are not written
JSONstringify(d) ==
    [kind |-> "json",
     val  |-> Dataset(d.data, IF d.columns = "undefined" THEN "absent" ELSE d.columns)]

\* JSON.parse throws a SyntaxError on text that is not JSON
ParseThrows(s) == s.kind # "json"
JSONparse(s) == s.val

\* messages of the failures a cycle can meet
NetMsgs == {"Failed to fetch", "NetworkError"}
StorageMsg == "SecurityError: storage access denied"
CacheSyntaxMsg == "SyntaxError: cached data is not JSON"

PlainText(m) == [kind |-> "text", form |-> "plain", shown |-> Null, msg |-> m]
DegradedText(cachedTime, m) ==
    [kind |-> "text", form |-> "degraded", shown |-> toLocaleString(cachedTime), msg |-> m]
AggregateText(m) == [kind |-> "text", form |-> "aggregate", shown |-> Null, msg |-> m]

\* what localStorage may hold when the page is opened
InitialStores ==
    { [data |-> Null, time |-> Null],
      [data |-> JSONstringify(Dataset(<<1>>, "absent")), time |-> Iso(0)],
      [data |-> [kind |-> "corrupt"], time |-> Iso(0)] }

\* behaviour of the two getItem calls / the two setItem calls of one cycle
StorageCalls == {"ok", "throw1", "throw2"}

NewCycle == [n |-> 0, allFailed |-> FALSE, got |-> Null, cacheRead |-> FALSE,
             readThrew |-> FALSE, parseThrew |-> FALSE, wr |-> "none",
             fresh |-> Null, lastMsg |-> "none", rejected |-> FALSE,
             pre |-> [data |-> Null, time |-> Null], done |-> FALSE]

\* the React state fetchData works on
View == [data |-> data, error |-> error, usingCachedData |-> usingCachedData,
         cacheTimestamp |-> cacheTimestamp, rejected |-> FALSE]

\* ------------------------------------------------------------------------
\* App.tsx: fetchData
\* ------------------------------------------------------------------------

\* a cache write that keeps an older snapshot instead of replacing it
CacheWrite_KeepsOld(store, d, now, wr) ==
    IF wr = "ok" /\ store.data = Null
    THEN [data |-> JSONstringify(d), time |-> now]
    ELSE store

\* try { setItem(data); setItem(time) } catch { console.warn }
CacheWrite(store, d, now, wr) ==
    CASE wr = "ok"     -> [data |-> JSONstringify(d), time |-> now]
      [] wr = "throw1" -> store
      [] wr = "throw2" -> [store EXCEPT !.data = JSONstringify(d)]

\* which cycle each cache entry comes from after the two setItem calls of
\* cycle n (0 is the session that left the entries found at startup)
WriterAfter(w, n, wr) ==
    CASE wr = "ok"     -> [data |-> n, time |-> n]
      [] wr = "throw1" -> w
      [] wr = "throw2" -> [w EXCEPT !.data = n]

\* transformedData = { data: Array.isArray(responseData?.data) ? responseData.data : [] }
TransformApp(body) ==
    Dataset(IF body.shape = "dataObj" THEN body.rows ELSE <<>>, "absent")

\* a catch block that stamps the fallback with the time of the failure
CatchApp_StampsNow(cur, store, msg, rd) ==
    IF rd # "ok" \/ (store.data # Null /\ store.time # Null /\ ParseThrows(store.data))
    THEN [cur EXCEPT !.rejected = TRUE]
    ELSE IF store.data # Null /\ store.time # Null
         THEN [cur EXCEPT !.data = JSONparse(store.data),
                          !.usingCachedData = TRUE,
                          !.cacheTimestamp = Iso(clock),
                          !.error = DegradedText(Iso(clock), msg)]
         ELSE [cur EXCEPT !.error = PlainText(msg), !.data = Null]

\* the catch block of App.tsx; an exception of getItem or JSON.parse leaves it
CatchApp(cur, store, msg, rd) ==
    IF rd # "ok"
    THEN [cur EXCEPT !.rejected = TRUE]
    ELSE IF store.data # Null /\ store.time # Null
         THEN IF ParseThrows(store.data)
              THEN [cur EXCEPT !.rejected = TRUE]
              ELSE [cur EXCEPT !.data = JSONparse(store.data),
                               !.usingCachedData = TRUE,
                               !.cacheTimestamp = store.time,
                               !.error = DegradedText(store.time, msg)]
         ELSE [cur EXCEPT !.error = PlainText(msg), !.data = Null]

\* the statements after the cache write
SuccessView(cur, d) ==
    [cur EXCEPT !.data = d, !.usingCachedData = FALSE, !.cacheTimestamp = Null]

\* install the result of a finished cycle; finally { setLoading(false) }
Finish(r) ==
    /\ data' = r.data
    /\ error' = r.error
    /\ usingCachedData' = r.usingCachedData
    /\ cacheTimestamp' = r.cacheTimestamp
    /\ loading' = FALSE
    /\ pc' = "idle"

StartFetch ==
    /\ pc = "idle"
    /\ clock < MaxCycles
    /\ loading' = TRUE
    /\ error' = Null
    /\ usingCachedData' = FALSE
    /\ clock' = clock + 1
    /\ pc' = "awaitFetch"
    /\ strategyIdx' = 1
    /\ lastError' = "none"
    /\ cyc' = [NewCycle EXCEPT !.n = clock + 1]
    /\ UNCHANGED <<variant, data, cacheTimestamp, storage, resOk, lastStored, writtenBy, enrichVars, reportVars>>

\* the failed branch of App.tsx's fetchData with the failure message msg
AppFail(msg, rd) ==
    /\ Finish(CatchApp(View, storage, msg, rd))
    /\ cyc' = [cyc EXCEPT !.allFailed = TRUE, !.lastMsg = msg, !.cacheRead = TRUE,
                          !.readThrew = (rd # "ok"),
                          !.parseThrew = (rd = "ok" /\ storage.data # Null
                                          /\ storage.time # Null /\ ParseThrows(storage.data)),
                          !.rejected = CatchApp(View, storage, msg, rd).rejected,
                          !.pre = storage, !.done = TRUE]
    /\ UNCHANGED <<variant, storage, strategyIdx, lastError, resOk, clock, lastStored, writtenBy, enrichVars, reportVars>>

\* await fetch(...) rejects
AppFetchReject ==
    /\ variant = "single" /\ pc = "awaitFetch"
    /\ \E m \in NetMsgs, rd \in StorageCalls : AppFail(m, rd)

\* await fetch(...) resolves with a response
AppFetchResponse ==
    /\ variant = "single" /\ pc = "awaitFetch"
    /\ \E ok \in BOOLEAN : resOk' = ok
    /\ pc' = "awaitBody"
    /\ UNCHANGED <<variant, data, loading, error, usingCachedData, cacheTimestamp,
                   storage, strategyIdx, lastError, clock, lastStored, writtenBy, cyc, enrichVars, reportVars>>

\* !response.ok: await response.text(), then throw `API returned ...`
AppBodyNotOk ==
    /\ variant = "single" /\ pc = "awaitBody" /\ ~resOk
    /\ \E m \in {"API returned 500: upstream text", "body stream error"},
          rd \in StorageCalls : AppFail(m, rd)

\* await response.json() rejects
AppBodyJsonReject ==
    /\ variant = "single" /\ pc = "awaitBody" /\ resOk
    /\ \E rd \in StorageCalls : AppFail("SyntaxError: response is not JSON", rd)

\* responseData?.error is truthy
AppBodyErrorField ==
    /\ variant = "single" /\ pc = "awaitBody" /\ resOk
    /\ \E rd \in StorageCalls : AppFail("EQUIPS_API_KEY not configured", rd)

AppBodies ==
    {[shape |-> "null", rows |-> <<>>], [shape |-> "notArray", rows |-> <<>>]}
    \cup {[shape |-> "dataObj", rows |-> r] : r \in Rows}

\* response.json() resolves without an error field
AppBodyData ==
    /\ variant = "single" /\ pc = "awaitBody" /\ resOk
    /\ \E body \in AppBodies, wr \in StorageCalls :
         /\ storage' = CacheWrite(storage, TransformApp(body), Iso(clock), wr)
         /\ Finish(SuccessView(View, TransformApp(body)))
         /\ lastStored' = IF wr = "throw1" THEN lastStored ELSE TransformApp(body)
         /\ writtenBy' = WriterAfter(writtenBy, clock, wr)
         /\ cyc' = [cyc EXCEPT !.got = body, !.fresh = TransformApp(body),
                               !.wr = wr, !.pre = storage, !.done = TRUE]
    /\ UNCHANGED <<variant, strategyIdx, lastError, resOk, clock, enrichVars, reportVars>>

\* ------------------------------------------------------------------------
\* The multi-proxy App (ReportGenerator.tsx, second half): fetchData
\* ------------------------------------------------------------------------

\* what a proxy strategy's fetch() can return without throwing
MultiBodies ==
    {[shape |-> "falsy", rows |-> <<>>, cols |-> "absent"],
     [shape |-> "other", rows |-> <<>>, cols |-> "absent"]}
    \cup {[shape |-> "array", rows |-> r, cols |-> "absent"] : r \in Rows}
    \cup {[shape |-> "dataObj", rows |-> r, cols |-> c] : r \in Rows, c \in {"absent", "cols"}}
    \cup {[shape |-> "rows", rows |-> r, cols |-> c] : r \in Rows, c \in {"undefined", "cols"}}

\* the if / else-if chain that builds transformedData
TransformMulti(p) ==
    CASE p.shape = "array"   -> Dataset(p.rows, "absent")
      [] p.shape = "dataObj" -> Dataset(p.rows, p.cols)
      [] p.shape = "rows"    -> Dataset(p.rows, p.cols)
      [] OTHER               -> Dataset(<<0>>, "absent")

\* a test that also turns away a payload that is no list of rows
Falsy_RejectsObjects(p) == p.shape \in {"falsy", "other"}

\* if (!proxyData): a null, 0, false or "" body counts as no data
Falsy(p) == p.shape = "falsy"

\* lastError?.message || fallback
MessageOr(lastErr, fallback) == IF lastErr = "none" THEN fallback ELSE lastErr

\* if (!proxyData) { ... } inside the try block, and the catch that follows it
CacheFallbackMulti(cur, store, lastErr, rd) ==
    IF rd # "ok"
    THEN [cur EXCEPT !.error = PlainText(StorageMsg), !.data = Null]
    ELSE IF store.data # Null /\ store.time # Null
         THEN IF ParseThrows(store.data)
              THEN [cur EXCEPT !.error = PlainText(CacheSyntaxMsg), !.data = Null]
              ELSE [cur EXCEPT !.data = JSONparse(store.data),
                               !.usingCachedData = TRUE,
                               !.cacheTimestamp = store.time,
                               !.error = DegradedText(store.time,
                                            MessageOr(lastErr, "All proxy services failed"))]
         ELSE [cur EXCEPT !.error = AggregateText(MessageOr(lastErr, "Unknown error")),
                          !.data = Null]

\* the loop over proxyStrategies ended with proxyData falsy
MultiNoProxyData(lastErr, rd, exhausted, got) ==
    /\ Finish(CacheFallbackMulti(View, storage, lastErr, rd))
    /\ cyc' = [cyc EXCEPT !.allFailed = exhausted, !.lastMsg = lastErr, !.cacheRead = TRUE,
                          !.got = got,
                          !.readThrew = (rd # "ok"),
                          !.parseThrew = (rd = "ok" /\ storage.data # Null
                                          /\ storage.time # Null /\ ParseThrows(storage.data)),
                          !.pre = storage, !.done = TRUE]
    /\ UNCHANGED <<variant, storage, strategyIdx, resOk, clock, lastStored, writtenBy, enrichVars, reportVars>>

\* catch (err) inside the loop: lastError = err, then the next strategy if any
MultiAttemptFail(m, rd) ==
    /\ lastError' = m
    /\ IF strategyIdx < NumStrategies
       THEN /\ strategyIdx' = strategyIdx + 1
            /\ pc' = "awaitFetch"
            /\ cyc' = [cyc EXCEPT !.lastMsg = m]
            /\ UNCHANGED <<variant, data, loading, error, usingCachedData,
                           cacheTimestamp, storage, resOk, clock, lastStored, writtenBy, enrichVars, reportVars>>
       ELSE MultiNoProxyData(m, rd, TRUE, Null)

\* fetch(url, { signal }) rejects with a network error
MultiFetchReject ==
    /\ variant = "multi" /\ pc = "awaitFetch"
    /\ \E m \in NetMsgs, rd \in StorageCalls : MultiAttemptFail(m, rd)

\* fetchWithTimeout: the timer fires, the controller aborts, 'Request timed out'
MultiTimeout ==
    /\ variant = "multi" /\ pc = "awaitFetch"
    /\ \E rd \in StorageCalls : MultiAttemptFail("Request timed out", rd)

\* fetch resolves: clearTimeout; if (!response.ok) throw new Error(`HTTP ...`)
MultiFetchResponse ==
    /\ variant = "multi" /\ pc = "awaitFetch"
    /\ \E ok \in BOOLEAN, rd \in StorageCalls :
         IF ok
         THEN /\ resOk' = TRUE
              /\ pc' = "awaitBody"
              /\ UNCHANGED <<variant, data, loading, error, usingCachedData, cacheTimestamp,
                             storage, strategyIdx, lastError, clock, lastStored, writtenBy, cyc, enrichVars, reportVars>>
         ELSE MultiAttemptFail("HTTP 500", rd)

\* response.json() rejects, or JSON.parse(data.contents) throws
MultiBodyReject ==
    /\ variant = "multi" /\ pc = "awaitBody"
    /\ \E rd \in StorageCalls : MultiAttemptFail("SyntaxError: response is not JSON", rd)

\* strategy.fetch() returns: proxyData = value; break
MultiBodyData ==
    /\ variant = "multi" /\ pc = "awaitBody"
    /\ \E p \in MultiBodies, rd \in StorageCalls, wr \in StorageCalls :
         IF Falsy(p)
         THEN /\ MultiNoProxyData(lastError, rd, FALSE, p)
              /\ UNCHANGED lastError
         ELSE /\ storage' = CacheWrite(storage, TransformMulti(p), Iso(clock), wr)
              /\ Finish(SuccessView(View, TransformMulti(p)))
              /\ lastStored' = IF wr = "throw1" THEN lastStored ELSE TransformMulti(p)
              /\ writtenBy' = WriterAfter(writtenBy, clock, wr)
              /\ cyc' = [cyc EXCEPT !.got = p, !.fresh = TransformMulti(p),
                                    !.wr = wr, !.pre = storage, !.done = TRUE]
              /\ UNCHANGED <<variant, strategyIdx, lastError, resOk, clock, enrichVars, reportVars>>

InitFetch ==
    /\ variant \in {"single", "multi"}
    /\ data = Null
    /\ loading = FALSE
    /\ error = Null
    /\ usingCachedData = FALSE
    /\ cacheTimestamp = Null
    /\ storage \in InitialStores
    /\ pc = "idle"
    /\ strategyIdx = 1
    /\ lastError = "none"
    /\ resOk = FALSE
    /\ clock = 0
    /\ lastStored = Null
    /\ writtenBy = [data |-> 0, time |-> 0]
    /\ cyc = NewCycle

NextFetch ==
    \/ StartFetch
    \/ AppFetchReject
    \/ AppFetchResponse
    \/ AppBodyNotOk
    \/ AppBodyJsonReject
    \/ AppBodyErrorField
    \/ AppBodyData
    \/ MultiFetchReject
    \/ MultiTimeout
    \/ MultiFetchResponse
    \/ MultiBodyReject
    \/ MultiBodyData


\* ------------------------------------------------------------------------
\* equips-proxy: strings
\* ------------------------------------------------------------------------
\* a string is the sequence of its characters; NullStr stands for null / undefined
NullStr == <<"null">>
EmptyStr == <<>>
LowerCase == <<"a", "b", "c", "d", "e", "f", "g", "h", "i", "j", "k", "l", "m", "n", "o", "p", "q", "r", "s", "t", "u", "v", "w", "x", "y", "z">>
UpperCase == <<"A", "B", "C", "D", "E", "F", "G", "H", "I", "J", "K", "L", "M", "N", "O", "P", "Q", "R", "S", "T", "U", "V", "W", "X", "Y", "Z">>

\* the values JavaScript treats as true in `x || y` and `if (x)`
TruthyStr(s) == s # NullStr /\ s # EmptyStr

IsUpper(c) == \E i \in 1..Len(UpperCase) : UpperCase[i] = c

\* String.prototype.toUpperCase on one character
toUpperCase(c) ==
    IF \E i \in 1..Len(LowerCase) : LowerCase[i] = c
    THEN UpperCase[CHOOSE i \in 1..Len(LowerCase) : LowerCase[i] = c]
    ELSE c

\* replace(/([A-Z])/g, ' $1')
RECURSIVE SpaceBeforeCapitals(_)
SpaceBeforeCapitals(s) ==
    IF s = <<>> THEN <<>>
    ELSE (IF IsUpper(Head(s)) THEN <<" ", Head(s)>> ELSE <<Head(s)>>)
         \o SpaceBeforeCapitals(Tail(s))

\* replace(/^./, s => s.toUpperCase())
UpperFirst(s) == IF s = <<>> THEN <<>> ELSE <<toUpperCase(Head(s))>> \o Tail(s)

\* String.prototype.trim
RECURSIVE TrimLeft(_)
TrimLeft(s) == IF s # <<>> /\ Head(s) = " " THEN TrimLeft(Tail(s)) ELSE s
RECURSIVE TrimRight(_)
TrimRight(s) ==
    IF s # <<>> /\ s[Len(s)] = " " THEN TrimRight(SubSeq(s, 1, Len(s) - 1)) ELSE s
trim(s) == TrimLeft(TrimRight(s))

\* String.prototype.startsWith
startsWith(s, prefix) ==
    Len(s) >= Len(prefix) /\ SubSeq(s, 1, Len(prefix)) = prefix

\* requestStatus enum -> human-readable display
STATUS_DISPLAY ==
    { <<<<"p", "r", "o", "p", "o", "s", "e", "d">>,
        <<"P", "r", "o", "p", "o", "s", "e", "d">>>>,
      <<<<"i", "n", "t", "e", "r", "n", "a", "l", "D", "i", "s", "p", "a", "t", "c", "h">>,
        <<"I", "n", "t", "e", "r", "n", "a", "l", " ", "D", "i", "s", "p", "a", "t", "c", "h">>>>,
      <<<<"e", "q", "u", "i", "p", "s", "D", "i", "s", "p", "a", "t", "c", "h">>,
        <<"E", "q", "u", "i", "p", "s", " ", "D", "i", "s", "p", "a", "t", "c", "h">>>>,
      <<<<"p", "r", "o", "v", "i", "d", "e", "r", "D", "i", "s", "p", "a", "t", "c", "h">>,
        <<"P", "r", "o", "v", "i", "d", "e", "r", " ", "D", "i", "s", "p", "a", "t", "c", "h">>>>,
      <<<<"s", "e", "r", "v", "i", "c", "e", "C", "o", "m", "p", "l", "e", "t", "e">>,
        <<"S", "e", "r", "v", "i", "c", "e", " ", "C", "o", "m", "p", "l", "e", "t", "e">>>>,
      <<<<"c", "l", "o", "s", "e", "d">>,
        <<"C", "l", "o", "s", "e", "d">>>>,
      <<<<"c", "a", "n", "c", "e", "l", "e", "d">>,
        <<"C", "a", "n", "c", "e", "l", "e", "d">>>>,
      <<<<"i", "n", "v", "o", "i", "c", "e", "d">>,
        <<"I", "n", "v", "o", "i", "c", "e", "d">>>>,
      <<<<"f", "o", "l", "l", "o", "w", "U", "p">>,
        <<"F", "o", "l", "l", "o", "w", " ", "U", "p">>>>,
      <<<<"a", "w", "a", "i", "t", "i", "n", "g", "P", "a", "y", "m", "e", "n", "t">>,
        <<"A", "w", "a", "i", "t", "i", "n", "g", " ", "P", "a", "y", "m", "e", "n", "t">>>>,
      <<<<"i", "n", "P", "r", "o", "g", "r", "e", "s", "s">>,
        <<"I", "n", " ", "P", "r", "o", "g", "r", "e", "s", "s">>>>,
      <<<<"o", "n", "H", "o", "l", "d">>,
        <<"O", "n", " ", "H", "o", "l", "d">>>> }

\* STATUS_DISPLAY[requestStatus] || requestStatus.replace(...).replace(...).trim()
formatStatus(requestStatus) ==
    IF \E e \in STATUS_DISPLAY : e[1] = requestStatus
    THEN (CHOOSE e \in STATUS_DISPLAY : e[1] = requestStatus)[2]
    ELSE trim(UpperFirst(SpaceBeforeCapitals(requestStatus)))

CapitalProjectsPrefix == <<"C", "a", "p", "i", "t", "a", "l", " ", "P", "r", "o", "j", "e", "c", "t", "s", ":", " ">>
UnknownLabel == <<"U", "n", "k", "n", "o", "w", "n">>
S_onHold == <<"o", "n", "H", "o", "l", "d">>
S_fooBar == <<"f", "o", "o", "B", "a", "r">>
S_Ready == <<"R", "e", "a", "d", "y">>
S_Done == <<"D", "o", "n", "e">>
S_Turn == <<"T", "u", "r", "n">>
S_idA == <<"s", "w", "t", "s", "-", "a">>
S_idB == <<"s", "w", "t", "s", "-", "b">>

\* ------------------------------------------------------------------------
\* equips-proxy: values
\* ------------------------------------------------------------------------
Min(a, b) == IF a < b THEN a ELSE b

\* an upstream service request, as far as the enrichment reads it
ServiceRequest(id, rs) ==
    [serviceWorkflowToServiceStatusId |-> id, requestStatus |-> rs]

RecordKinds ==
    {ServiceRequest(NullStr, NullStr), ServiceRequest(EmptyStr, S_onHold)}
    \cup {ServiceRequest(i, r) : i \in {S_idA, S_idB}, r \in {NullStr, S_onHold, S_fooBar}}

UpstreamLists == UNION {[1..n -> RecordKinds] : n \in 0..MaxUpstream}

\* what GET /public/serviceWorkflowToServiceStatus/{id} can answer
SwtsReplies ==
    { [serviceStatusName |-> NullStr, name |-> NullStr, serviceWorkflowName |-> NullStr],
      [serviceStatusName |-> S_Ready, name |-> NullStr,
       serviceWorkflowName |-> CapitalProjectsPrefix \o S_Turn],
      [serviceStatusName |-> NullStr, name |-> S_Done, serviceWorkflowName |-> S_Turn] }

\* the shapes a search page can come in
PageShapes == {"array", "dataObj", "noData"}

NoResponse == [kind |-> "none"]
ErrorResponse(m) == [kind |-> "error", status |-> 500, error |-> m]
DataResponse(d) == [kind |-> "data", status |-> 200, data |-> d]

PendingLookup == [st |-> "pending", name |-> EmptyStr, workflowName |-> EmptyStr]
RejectedLookup == [st |-> "rejected", name |-> EmptyStr, workflowName |-> EmptyStr]
PendingPage == [st |-> "pending", items |-> <<>>]

EmptyMap == <<>>
Put(m, k, v) == [x \in DOMAIN m \cup {k} |-> IF x = k THEN v ELSE m[x]]

\* map[key] || ''
GetOrEmpty(m, k) == IF k \in DOMAIN m /\ TruthyStr(m[k]) THEN m[k] ELSE EmptyStr

\* { ...a, ...b }
Spread(a, b) ==
    [k \in DOMAIN a \cup DOMAIN b |-> IF k \in DOMAIN b THEN b[k] ELSE a[k]]

RECURSIVE Flat(_)
Flat(ss) == IF ss = <<>> THEN <<>> ELSE Head(ss) \o Flat(Tail(ss))

SeqMap(Op(_), s) == [i \in 1..Len(s) |-> Op(s[i])]

\* ------------------------------------------------------------------------
\* equips-proxy: the request handler
\* ------------------------------------------------------------------------
totalPages == maxRecords \div pageSize

\* the upstream answers take/skip with the slice it holds
UpstreamPage(up, p) == SubSeq(up, p * pageSize + 1, Min(Len(up), (p + 1) * pageSize))

\* const items = Array.isArray(result) ? result : result?.data || []
PageItems(shape, slice) == IF shape = "noData" THEN <<>> ELSE slice

\* a filter that lets every record through
Relevant_KeepsAll(all) == all

\* allServiceRequests.filter((sr) => sr.serviceWorkflowToServiceStatusId)
Relevant(all) ==
    SelectSeq(all, LAMBDA sr : TruthyStr(sr.serviceWorkflowToServiceStatusId))

RECURSIVE Dedupe(_, _)
Dedupe(s, seen) ==
    IF s = <<>> THEN <<>>
    ELSE IF Head(s) \in seen THEN Dedupe(Tail(s), seen)
         ELSE <<Head(s)>> \o Dedupe(Tail(s), seen \cup {Head(s)})

\* a collection of the identifiers that keeps repeated ones
UniqueStatusIds_NoSet(rel) ==
    SeqMap(LAMBDA sr : sr.serviceWorkflowToServiceStatusId, rel)

\* [...new Set(relevant.map(sr => sr.serviceWorkflowToServiceStatusId))]
UniqueStatusIds(rel) ==
    Dedupe(SeqMap(LAMBDA sr : sr.serviceWorkflowToServiceStatusId, rel), {})

\* a batch that takes all the identifiers left
BatchAt_AllLeft(unique, i) == SubSeq(unique, i + 1, Len(unique))

\* uniqueStatusIds.slice(i, i + BATCH_SIZE)
BatchAt(unique, i) == SubSeq(unique, i + 1, Min(Len(unique), i + BATCH_SIZE))

\* the value a lookup's callback returns for the reply swts
LookupValue(swts) ==
    [st |-> "fulfilled",
     name |-> IF TruthyStr(swts.serviceStatusName) THEN swts.serviceStatusName
              ELSE IF TruthyStr(swts.name) THEN swts.name ELSE EmptyStr,
     workflowName |-> IF TruthyStr(swts.serviceWorkflowName)
                      THEN swts.serviceWorkflowName ELSE EmptyStr]

\* for (const result of results) if (result.status === 'fulfilled') map[id] = value
RECURSIVE JoinBatch(_, _, _, _)
JoinBatch(m, batch, results, field) ==
    IF batch = <<>> THEN m
    ELSE JoinBatch(IF results[Head(batch)].st = "fulfilled"
                   THEN Put(m, Head(batch), results[Head(batch)][field])
                   ELSE m,
                   Tail(batch), results, field)

\* a status label without the fallback to requestStatus
StatusName_NoFallback(sr, sMap) ==
    GetOrEmpty(sMap, sr.serviceWorkflowToServiceStatusId)

\* resolvedStatusName || (sr.requestStatus ? formatStatus(sr.requestStatus) : 'Unknown')
StatusName(sr, sMap) ==
    IF TruthyStr(GetOrEmpty(sMap, sr.serviceWorkflowToServiceStatusId))
    THEN GetOrEmpty(sMap, sr.serviceWorkflowToServiceStatusId)
    ELSE IF TruthyStr(sr.requestStatus) THEN formatStatus(sr.requestStatus)
         ELSE UnknownLabel

\* workflowNameMap[swtsId] || '' with the 'Capital Projects: ' prefix cut off
TrimmedWorkflow(sr, wMap) ==
    LET w == GetOrEmpty(wMap, sr.serviceWorkflowToServiceStatusId)
    IN  IF startsWith(w, CapitalProjectsPrefix)
        THEN SubSeq(w, Len(CapitalProjectsPrefix) + 1, Len(w))
        ELSE w

\* custom field key mapping: snake_case API keys -> camelCase report fields
CUSTOM_FIELD_MAP ==
    { <<"cp_walk_date", "cpWalkDate">>, <<"evs", "evs">>,
      <<"key_release", "keyRelease">>, <<"hhg", "hhg">>,
      <<"move_in", "moveIn">>, <<"ntv", "ntv">>,
      <<"vacate", "vacate">>, <<"kti", "kti">> }

\* obj[k]; a key the object does not have reads as undefined
Get(obj, k) == IF k \in DOMAIN obj THEN obj[k] ELSE NullStr

\* a number of milliseconds: midnight UTC of the day y-m-d; "epoch" marks a
\* number above 1_000_000_000, "small" one that is not
Epoch(y, m, d) == <<"epoch">> \o y \o m \o d
SmallNumber == <<"small", "1", "9", "7", "0", "0", "1", "0", "1">>

\* typeof value === 'number'
IsNumber(value) == value # <<>> /\ value[1] \in {"epoch", "small"}
\* typeof value === 'number' && value > 1_000_000_000
IsEpoch(value) == value # <<>> /\ value[1] = "epoch"
\* typeof value === 'string'
IsString(value) == value = <<>> \/ value[1] \notin {"epoch", "small", "null"}

\* new Date(value).getFullYear()
getFullYear(value) == SubSeq(value, 2, 5)

\* new Date(value).toISOString().split('T')[0]
toISODate(value) ==
    SubSeq(value, 2, 5) \o <<"-">> \o SubSeq(value, 6, 7) \o <<"-">> \o SubSeq(value, 8, 9)

\* the month of toLocaleDateString('en-US', { month: 'short' })
MonthShort(mm) ==
    CASE mm = <<"0", "1">> -> <<"J", "a", "n">>
      [] mm = <<"0", "2">> -> <<"F", "e", "b">>
      [] mm = <<"0", "3">> -> <<"M", "a", "r">>
      [] mm = <<"0", "4">> -> <<"A", "p", "r">>
      [] mm = <<"0", "5">> -> <<"M", "a", "y">>
      [] mm = <<"0", "6">> -> <<"J", "u", "n">>
      [] mm = <<"0", "7">> -> <<"J", "u", "l">>
      [] mm = <<"0", "8">> -> <<"A", "u", "g">>
      [] mm = <<"0", "9">> -> <<"S", "e", "p">>
      [] mm = <<"1", "0">> -> <<"O", "c", "t">>
      [] mm = <<"1", "1">> -> <<"N", "o", "v">>
      [] mm = <<"1", "2">> -> <<"D", "e", "c">>

\* the day of toLocaleDateString('en-US', { day: 'numeric' })
DayNumeric(dd) == IF dd[1] = "0" THEN <<dd[2]>> ELSE dd

\* new Date().getFullYear() at the time of the run
currentYear == <<"2", "0", "2", "6">>

\* formatEpoch(value, omitYear); omitYear undefined is NullStr
formatEpoch(value, omitYear) ==
    IF IsEpoch(value)
    THEN MonthShort(SubSeq(value, 6, 7)) \o <<" ">> \o DayNumeric(SubSeq(value, 8, 9))
         \o (IF omitYear = NullStr \/ getFullYear(value) # omitYear
             THEN <<",", " ">> \o getFullYear(value)
             ELSE <<>>)
    ELSE IF IsString(value) /\ trim(value) # <<>> THEN value ELSE EmptyStr

\* dueDateStr: the epoch dueDate as YYYY-MM-DD, '' without a numeric dueDate
DueDateStr(sr) ==
    IF IsNumber(Get(sr, "dueDate")) THEN toISODate(sr.dueDate) ELSE EmptyStr

\* omitYear = (dueDateYear === currentYear) ? currentYear : undefined
OmitYear(sr) ==
    IF IsNumber(Get(sr, "dueDate")) /\ getFullYear(sr.dueDate) = currentYear
    THEN currentYear ELSE NullStr

\* customFields && typeof customFields === 'object'
HasCustomFields(sr) == "customFields" \in DOMAIN sr

\* a year test that looks at the due date only
YearToOmit_DueDateOnly(sr) == OmitYear(sr)

\* yearToOmit = allSameYear ? omitYear : undefined
YearToOmit(sr) ==
    IF /\ OmitYear(sr) # NullStr
       /\ \A e \in CUSTOM_FIELD_MAP :
            IsEpoch(Get(sr.customFields, e[1])) =>
                getFullYear(sr.customFields[e[1]]) = OmitYear(sr)
    THEN OmitYear(sr) ELSE NullStr

\* flatCustomFields; the sequential handler calls formatEpoch without a year
FlatCustomFields(sr, v) ==
    IF ~HasCustomFields(sr) THEN EmptyMap
    ELSE [reportKey \in {e[2] : e \in {x \in CUSTOM_FIELD_MAP : x[1] \in DOMAIN sr.customFields}} |->
            formatEpoch(sr.customFields[(CHOOSE e \in CUSTOM_FIELD_MAP : e[2] = reportKey)[1]],
                        IF v = "parallel" THEN YearToOmit(sr) ELSE NullStr)]

\* relevant.map(sr => ({ ...sr, statusName, workflowName, dueDateFormatted,
\*                        ...flatCustomFields }))
Enriched(rel, sMap, wMap, v) ==
    SeqMap(LAMBDA sr :
             Spread(IF v = "parallel"
                    THEN Spread(sr, [statusName |-> StatusName(sr, sMap),
                                     workflowName |-> TrimmedWorkflow(sr, wMap),
                                     dueDateFormatted |-> DueDateStr(sr)])
                    ELSE Spread(sr, [statusName |-> StatusName(sr, sMap),
                                     dueDateFormatted |-> DueDateStr(sr)]),
                    FlatCustomFields(sr, v)),
           rel)

\* from the joined pages to the first lookup batch, or to the response when
\* there is nothing to look up
AfterPages(all) ==
    LET rel    == Relevant(all)
        unique == UniqueStatusIds(rel)
        batch  == BatchAt(unique, 0)
    IN  /\ allServiceRequests' = all
        /\ relevant' = rel
        /\ uniqueStatusIds' = unique
        /\ statusNameMap' = EmptyMap
        /\ workflowNameMap' = EmptyMap
        /\ batchStart' = 0
        /\ IF unique = <<>>
           THEN /\ response' = DataResponse(Enriched(rel, EmptyMap, EmptyMap, evariant))
                /\ epc' = "done"
                /\ UNCHANGED <<inflight, requests>>
           ELSE /\ inflight' = [id \in {batch[j] : j \in 1..Len(batch)} |-> PendingLookup]
                /\ requests' = requests \o batch
                /\ epc' = "lookups"
                /\ UNCHANGED response

\* Deno.serve handler up to its first await on the upstream; the name maps
\* do not exist yet (they are declared once the pages are in)
StartRun ==
    /\ epc = "idle"
    /\ \E up \in UpstreamLists, hasKey \in BOOLEAN :
         /\ upstream' = up
         /\ IF hasKey
            THEN /\ epc' = "pages"
                 /\ response' = NoResponse
                 /\ pageLog' = [p \in (IF evariant = "parallel"
                                        THEN 0..(totalPages - 1) ELSE {0}) |-> PendingPage]
            ELSE /\ epc' = "done"
                 /\ response' = ErrorResponse("EQUIPS_API_KEY not configured")
                 /\ pageLog' = EmptyMap
    /\ pageResults' = [p \in 0..(totalPages - 1) |->
                         IF evariant = "parallel" THEN PendingPage
                         ELSE [st |-> "none", items |-> <<>>]]
    /\ UNCHANGED <<evariant, page, allServiceRequests, relevant, uniqueStatusIds,
                   batchStart, inflight, statusNameMap, workflowNameMap, requests,
                   replies, fetchVars, reportVars>>

\* the handler has returned its Response; the invocation and its locals end
Return ==
    /\ epc = "done"
    /\ epc' = "idle"
    /\ response' = NoResponse
    /\ upstream' = <<>>
    /\ pageResults' = [p \in 0..(totalPages - 1) |-> [st |-> "none", items |-> <<>>]]
    /\ page' = 0
    /\ allServiceRequests' = <<>>
    /\ relevant' = <<>>
    /\ uniqueStatusIds' = <<>>
    /\ batchStart' = 0
    /\ inflight' = EmptyMap
    /\ requests' = <<>>
    /\ replies' = EmptyMap
    /\ pageLog' = EmptyMap
    /\ UNCHANGED <<evariant, statusNameMap, workflowNameMap, fetchVars, reportVars>>

\* parallel: one of the page requests is answered
PageReply ==
    /\ evariant = "parallel" /\ epc = "pages"
    /\ \E p \in DOMAIN pageResults, shape \in PageShapes :
         /\ pageResults[p].st = "pending"
         /\ LET pr == [pageResults EXCEPT
                         ![p] = [st |-> "ok",
                                 items |-> PageItems(shape, UpstreamPage(upstream, p))]]
            IN  /\ pageResults' = pr
                /\ pageLog' = [pageLog EXCEPT ![p] = pr[p]]
                /\ IF \A q \in DOMAIN pr : pr[q].st = "ok"
                   THEN AfterPages(Flat([i \in 1..totalPages |-> pr[i - 1].items]))
                   ELSE UNCHANGED <<allServiceRequests, relevant, uniqueStatusIds,
                                    statusNameMap, workflowNameMap, batchStart, inflight,
                                    requests, response, epc>>
    /\ UNCHANGED <<evariant, upstream, page, replies, fetchVars, reportVars>>

\* parallel: a page request fails; Promise.all rejects and the handler answers 500
PageFail ==
    /\ evariant = "parallel" /\ epc = "pages"
    /\ \E p \in DOMAIN pageResults :
         /\ pageResults[p].st = "pending"
         /\ pageResults' = [pageResults EXCEPT ![p] = [st |-> "failed", items |-> <<>>]]
         /\ pageLog' = [pageLog EXCEPT ![p] = [st |-> "failed", items |-> <<>>]]
    /\ response' = ErrorResponse("EQUIPS /public/serviceRequest/search returned 500")
    /\ epc' = "done"
    /\ UNCHANGED <<evariant, upstream, page, allServiceRequests, relevant, uniqueStatusIds,
                   statusNameMap, workflowNameMap, batchStart, inflight, requests,
                   replies, fetchVars, reportVars>>

\* sequential: the page awaited in the while loop is answered
SeqPageReply ==
    /\ evariant = "sequential" /\ epc = "pages"
    /\ \E shape \in PageShapes :
         LET items == PageItems(shape, UpstreamPage(upstream, page))
             all   == allServiceRequests \o items
         IN  /\ page' = page + 1
             /\ IF Len(items) < pageSize \/ Len(all) >= maxRecords
                THEN /\ AfterPages(all)
                     /\ pageLog' = [pageLog EXCEPT ![page] = [st |-> "ok", items |-> items]]
                ELSE /\ allServiceRequests' = all
                     /\ pageLog' = Put([pageLog EXCEPT ![page] = [st |-> "ok", items |-> items]],
                                       page + 1, PendingPage)
                     /\ UNCHANGED <<relevant, uniqueStatusIds, statusNameMap,
                                    workflowNameMap, batchStart, inflight, requests,
                                    response, epc>>
    /\ UNCHANGED <<evariant, upstream, pageResults, replies, fetchVars, reportVars>>

\* sequential: the page awaited fails; the handler answers 500
SeqPageFail ==
    /\ evariant = "sequential" /\ epc = "pages"
    /\ response' = ErrorResponse("EQUIPS /public/serviceRequest/search returned 500")
    /\ epc' = "done"
    /\ pageLog' = [pageLog EXCEPT ![page] = [st |-> "failed", items |-> <<>>]]
    /\ UNCHANGED <<evariant, upstream, pageResults, page, allServiceRequests, relevant,
                   uniqueStatusIds, statusNameMap, workflowNameMap, batchStart, inflight,
                   requests, replies, fetchVars, reportVars>>

\* one lookup of the batch settles with result r; when it is the last of the
\* batch, Promise.allSettled resolves and the loop goes on
SettleLookup(id, r) ==
    LET results == [inflight EXCEPT ![id] = r]
        batch   == BatchAt(uniqueStatusIds, batchStart)
        sMap    == JoinBatch(statusNameMap, batch, results, "name")
        wMap    == IF evariant = "parallel"
                   THEN JoinBatch(workflowNameMap, batch, results, "workflowName")
                   ELSE workflowNameMap
        next    == BatchAt(uniqueStatusIds, batchStart + BATCH_SIZE)
    IN  /\ inflight[id].st = "pending"
        /\ replies' = Put(replies, id, r)
        /\ IF \E other \in DOMAIN results : results[other].st = "pending"
           THEN /\ inflight' = results
                /\ UNCHANGED <<statusNameMap, workflowNameMap, batchStart, requests,
                               response, epc>>
           ELSE /\ statusNameMap' = sMap
                /\ workflowNameMap' = wMap
                /\ batchStart' = batchStart + BATCH_SIZE
                /\ IF batchStart + BATCH_SIZE < Len(uniqueStatusIds)
                   THEN /\ inflight' = [x \in {next[j] : j \in 1..Len(next)} |-> PendingLookup]
                        /\ requests' = requests \o next
                        /\ UNCHANGED <<response, epc>>
                   ELSE /\ inflight' = results
                        /\ response' = DataResponse(Enriched(relevant, sMap, wMap, evariant))
                        /\ epc' = "done"
                        /\ UNCHANGED requests
        /\ UNCHANGED <<evariant, upstream, pageResults, page, allServiceRequests, relevant,
                       uniqueStatusIds, pageLog, fetchVars, reportVars>>

\* equipsFetch of a lookup resolves
LookupReply ==
    /\ epc = "lookups"
    /\ \E id \in DOMAIN inflight, swts \in SwtsReplies : SettleLookup(id, LookupValue(swts))

\* equipsFetch of a lookup throws (non-2xx, network error, unparseable body)
LookupFail ==
    /\ epc = "lookups"
    /\ \E id \in DOMAIN inflight : SettleLookup(id, RejectedLookup)

InitEnrich ==
    /\ evariant \in {"parallel", "sequential"}
    /\ epc = "idle"
    /\ upstream = <<>>
    /\ pageResults = [p \in 0..(totalPages - 1) |-> [st |-> "none", items |-> <<>>]]
    /\ page = 0
    /\ allServiceRequests = <<>>
    /\ relevant = <<>>
    /\ uniqueStatusIds = <<>>
    /\ batchStart = 0
    /\ inflight = EmptyMap
    /\ statusNameMap = EmptyMap
    /\ workflowNameMap = EmptyMap
    /\ requests = <<>>
    /\ replies = EmptyMap
    /\ pageLog = EmptyMap
    /\ response = NoResponse

NextEnrich ==
    \/ StartRun
    \/ PageReply
    \/ PageFail
    \/ SeqPageReply
    \/ SeqPageFail
    \/ LookupReply
    \/ LookupFail
    \/ Return


\* ------------------------------------------------------------------------
\* ReportGenerator: normalizeEntry and the date buckets
\* ------------------------------------------------------------------------
S_AllDay == <<"A", "l", "l", " ", "D", "a", "y">>
S_UNKNOWN == <<"U", "N", "K", "N", "O", "W", "N">>
S_Untitled == <<"U", "n", "t", "i", "t", "l", "e", "d">>
NoDate == <<"N", "o", " ", "D", "a", "t", "e">>
S_Open == <<"O", "p", "e", "n">>
S_Nine == <<"9", ":", "0", "0">>
S_TitleA == <<"U", "n", "i", "t", " ", "A">>
S_TitleB == <<"U", "n", "i", "t", " ", "B">>
S_Loc == <<"l", "o", "c", "-", "1">>
S_Stale == <<"S", "t", "a", "l", "e">>
S_TBD == <<"T", "B", "D">>
S_Blank == <<" ", " ">>
D_Feb23 == <<"2", "0", "2", "6", "-", "0", "2", "-", "2", "3">>
D_Mar01 == <<"2", "0", "2", "6", "-", "0", "3", "-", "0", "1">>
Y2025 == <<"2", "0", "2", "5">>
M02 == <<"0", "2">>
M03 == <<"0", "3">>
M11 == <<"1", "1">>
D01 == <<"0", "1">>
D23 == <<"2", "3">>

\* the source keys normalizeEntry tries for each field of a TaskEntry, in the
\* order of the || chain ("->" stands for the arrow in two of the key names)
Candidates ==
    [
      date |-> <<"Due Date: Day", "due_date", "dueDate", "Due_Date", "DueDate", "date", "Date", "created_at", "createdAt">>,
      time |-> <<"time", "Time">>,
      status |-> <<"Status - StatusId -> Name", "status", "Status", "state", "State">>,
      title |-> <<"title", "Title", "name", "Name">>,
      description |-> <<"descriptionText2", "description", "Description", "desc", "Desc">>,
      details |-> <<"details", "Details", "notes", "Notes">>,
      cpWalkDate |-> <<"CP Walk Date", "cpWalkDate", "cp_walk_date">>,
      evs |-> <<"EVS", "evs", "EVS_Date">>,
      keyRelease |-> <<"Key Release", "keyRelease", "key_release">>,
      hhg |-> <<"HHG", "hhg", "HHG_Date">>,
      moveIn |-> <<"Move In", "moveIn", "move_in">>,
      ntv |-> <<"NTV", "ntv", "NTV_Date">>,
      vacate |-> <<"Vacate", "vacate", "Vacate_Date">>,
      openWOs |-> <<"Make Readys - Location -> Count Open", "openWOs", "open_wos">>,
      kti |-> <<"KTI", "kti", "KTI_Date">>,
      serviceRequestId |-> <<"Service Request Id", "serviceRequestId", "service_request_id">> ]

CanonicalFields == DOMAIN Candidates

\* the last operand of the || chain
Default(field) ==
    CASE field = "date"   -> NullStr
      [] field = "status" -> S_UNKNOWN
      [] field = "title"  -> S_Untitled
      [] OTHER            -> EmptyStr

\* entry[k1] || entry[k2] || ... || default
RECURSIVE FirstTruthy(_, _, _)
FirstTruthy(entry, keys, default) ==
    IF keys = <<>> THEN default
    ELSE IF TruthyStr(Get(entry, Head(keys))) THEN entry[Head(keys)]
         ELSE FirstTruthy(entry, Tail(keys), default)

\* the properties of the object literal that come before ...entry
Resolved(entry) ==
    [field \in CanonicalFields |->
        LET value == FirstTruthy(entry, Candidates[field], Default(field))
        IN  IF field = "time" /\ value = S_AllDay THEN EmptyStr ELSE value]

\* the keys of an entry that are no field of TaskEntry
LegacyOnly(entry) == [k \in DOMAIN entry \ CanonicalFields |-> entry[k]]

\* a normalizer that maps the legacy column names only and keeps nothing else
normalizeEntry_LegacyOnly(entry) == Resolved(LegacyOnly(entry))

\* normalizeEntry: { date: ..., time: ..., ..., ...entry }
normalizeEntry(entry) == Spread(Resolved(entry), entry)

\* String(number): the decimal digits of the number, written as "#" and the
\* day the number stands for
NumberToString(value) == <<"#">> \o Tail(value)

\* the property key acc[date] uses
PropertyKey(value) == IF IsNumber(value) THEN NumberToString(value) ELSE value

\* const date = entry.date || 'No Date'
BucketKey(task) ==
    IF TruthyStr(Get(task, "date")) THEN PropertyKey(task.date) ELSE NoDate

\* a reducer that starts the bucket anew with every entry
GroupStep_Overwrites(acc, task) ==
    IF \E i \in 1..Len(acc) : acc[i].key = BucketKey(task)
    THEN [i \in 1..Len(acc) |->
            IF acc[i].key = BucketKey(task)
            THEN [key |-> acc[i].key, tasks |-> <<task>>] ELSE acc[i]]
    ELSE Append(acc, [key |-> BucketKey(task), tasks |-> <<task>>])

\* the reducer: if (!acc[date]) acc[date] = []; acc[date].push(entry)
GroupStep(acc, task) ==
    IF \E i \in 1..Len(acc) : acc[i].key = BucketKey(task)
    THEN [i \in 1..Len(acc) |->
            IF acc[i].key = BucketKey(task)
            THEN [key |-> acc[i].key, tasks |-> Append(acc[i].tasks, task)] ELSE acc[i]]
    ELSE Append(acc, [key |-> BucketKey(task), tasks |-> <<task>>])

\* normalizedData.reduce(..., {})
RECURSIVE Reduce(_, _)
Reduce(acc, tasks) ==
    IF tasks = <<>> THEN acc ELSE Reduce(GroupStep(acc, Head(tasks)), Tail(tasks))

\* entries as an earlier data source delivered them
RawEntries ==
    { <<>>,
      ("date" :> D_Feb23),
      ("date" :> D_Feb23 @@ "title" :> S_TitleA),
      ("date" :> D_Feb23 @@ "title" :> S_TitleB),
      ("date" :> D_Mar01 @@ "name" :> S_TitleA),
      ("Due Date: Day" :> D_Mar01 @@ "date" :> D_Feb23),
      ("date" :> EmptyStr @@ "created_at" :> D_Mar01),
      ("time" :> S_AllDay),
      ("Time" :> S_AllDay),
      ("time" :> S_Nine @@ "date" :> D_Feb23),
      ("status" :> S_Open),
      ("Status" :> S_Open),
      ("Status - StatusId -> Name" :> S_Ready @@ "status" :> S_Open),
      ("status" :> NullStr @@ "title" :> S_TitleA),
      ("title" :> EmptyStr @@ "Name" :> S_TitleB),
      ("locationId" :> S_Loc @@ "title" :> S_TitleA),
      ("locationId" :> S_Loc @@ "Status" :> S_Open @@ "Date" :> D_Mar01) }

\* the customFields objects of the upstream records
CustomFieldObjects ==
    { ("cp_walk_date" :> Epoch(currentYear, M03, D01)),
      ("cp_walk_date" :> Epoch(Y2025, M11, D23)),
      ("cp_walk_date" :> Epoch(currentYear, M03, D01) @@ "move_in" :> Epoch(Y2025, M11, D23)),
      ("cp_walk_date" :> Epoch(currentYear, M03, D01) @@ "move_in" :> Epoch(currentYear, M02, D23)),
      ("evs" :> S_TBD @@ "kti" :> SmallNumber @@ "vacate" :> S_Blank
         @@ "ntv" :> NullStr @@ "move_in" :> Epoch(currentYear, M02, D23)) }

\* upstream service requests with or without a due date and custom fields;
\* two of them also have fields named like those the enrichment adds
RichRequests ==
    LET base  == {ServiceRequest(S_idA, S_onHold)}
        due   == {<<>>, ("dueDate" :> Epoch(currentYear, M02, D23)),
                        ("dueDate" :> Epoch(Y2025, M11, D23))}
        cf    == {<<>>} \cup {("customFields" :> o) : o \in CustomFieldObjects}
        extra == ("statusName" :> S_Stale @@ "evs" :> S_Stale)
        plain == {Spread(Spread(b, d), f) : b \in base, d \in due, f \in cf}
    IN  plain \cup {Spread(r, extra) :
                       r \in {p \in plain : DOMAIN p \cap {"dueDate", "customFields"} = {}
                                             \/ (/\ "customFields" \in DOMAIN p
                                                 /\ "evs" \in DOMAIN p.customFields
                                                 /\ IsNumber(Get(p, "dueDate"))
                                                 /\ getFullYear(p.dueDate) = currentYear)}}

RawLists == UNION {[1..n -> RawEntries] : n \in 0..MaxTasks}
RichLists == UNION {[1..n -> RichRequests] : n \in 0..MaxTasks}

\* one render of ReportGenerator with the entries of its data prop
Render(entries, from, v) ==
    /\ mounted' = TRUE
    /\ processedData' = entries
    /\ origin' = from
    /\ originHandler' = v
    /\ normalizedData' = SeqMap(normalizeEntry, entries)
    /\ groupedData' = Reduce(<<>>, SeqMap(normalizeEntry, entries))
    /\ dateRange' = <<0, 100>>
    /\ effectRan' = FALSE
    /\ effectNow' = Null
    /\ rangeSetBy' = "useState"
    /\ UNCHANGED <<fetchVars, enrichVars>>

\* the data prop holds entries of an earlier data source
RenderRaw ==
    /\ ~mounted
    /\ \E entries \in RawLists : Render(entries, <<>>, "none")

\* the data prop holds what the enrichment returned for the upstream records up
RenderEnriched ==
    /\ ~mounted
    /\ \E up \in RichLists, sMap \in {EmptyMap, (S_idA :> S_Ready)},
          v \in {"parallel", "sequential"} :
           Render(Enriched(up, sMap, EmptyMap, v), up, v)

\* App renders the loading card or "No data available" instead of the report
Unmount ==
    /\ mounted
    /\ mounted' = FALSE
    /\ originHandler' = "none"
    /\ origin' = <<>>
    /\ processedData' = <<>>
    /\ normalizedData' = <<>>
    /\ groupedData' = <<>>
    /\ dateRange' = <<0, 100>>
    /\ effectRan' = FALSE
    /\ effectNow' = Null
    /\ rangeSetBy' = "useState"
    /\ UNCHANGED <<fetchVars, enrichVars>>

InitReport ==
    /\ mounted = FALSE
    /\ originHandler = "none"
    /\ origin = <<>>
    /\ processedData = <<>>
    /\ normalizedData = <<>>
    /\ groupedData = <<>>
    /\ dateRange = <<0, 100>>
    /\ effectRan = FALSE
    /\ effectNow = Null
    /\ rangeSetBy = "useState"

NextReport ==
    \/ RenderRaw
    \/ RenderEnriched
    \/ Unmount

\* ------------------------------------------------------------------------
\* Specifications
\* ------------------------------------------------------------------------
\* the handler at rest while the client is observed
EnrichAtRest == InitEnrich /\ evariant = "parallel"

\* the client at rest while the handler is observed
FetchAtRest == InitFetch /\ variant = "single" /\ storage = [data |-> Null, time |-> Null]

InitFetchSpec == InitFetch /\ EnrichAtRest /\ InitReport
SpecFetch == InitFetchSpec /\ [][NextFetch]_vars

InitEnrichSpec == InitEnrich /\ FetchAtRest /\ InitReport

InitReportSpec == InitReport /\ FetchAtRest /\ EnrichAtRest
SpecReport == InitReportSpec /\ [][NextReport]_vars
SpecEnrich == InitEnrichSpec /\ [][NextEnrich]_vars

\* the network reply is not under the program's control; the timer of
\* fetchWithTimeout and the reading of a body that has begun to arrive are
BodySettles ==
    \/ AppBodyNotOk
    \/ AppBodyJsonReject
    \/ AppBodyErrorField
    \/ AppBodyData
    \/ MultiBodyReject
    \/ MultiBodyData

LiveFetch ==
    /\ SpecFetch
    /\ WF_vars(MultiTimeout)
    /\ WF_vars(BodySettles)

\* ------------------------------------------------------------------------
\* Fetch orchestration: properties
\* ------------------------------------------------------------------------

\* a cycle has run to its end and no new one has started
CycleOver == cyc.done /\ pc = "idle"

\* the body an attempt delivered is one the code accepts as a dataset
WellFormed(b) == b # Null /\ b.shape # "falsy"

\* the storage held a readable snapshot when the cycle looked at it
SnapshotPresent(store) ==
    store.data # Null /\ store.time # Null /\ ~ParseThrows(store.data)

OutSuccess ==
    /\ cyc.fresh # Null /\ data = cyc.fresh
    /\ error = Null /\ ~usingCachedData
OutDegraded ==
    /\ SnapshotPresent(cyc.pre) /\ data = JSONparse(cyc.pre.data)
    /\ usingCachedData /\ error # Null
OutFailed ==
    /\ data = Null /\ error # Null /\ ~usingCachedData

\* C1: every fetch cycle ends with loading = false in exactly one of the
\* outcomes Success, Degraded, Failed (stated as the claim has it; the code
\* of App.tsx violates it when the cache read throws).
C1_CycleEndsInOneOutcome ==
    CycleOver =>
        /\ ~loading
        /\ Cardinality({o \in {"s", "d", "f"} :
                          \/ o = "s" /\ OutSuccess
                          \/ o = "d" /\ OutDegraded
                          \/ o = "f" /\ OutFailed}) = 1

C3_FailedMentionsLastFailure ==
    (CycleOver /\ cyc.allFailed /\ (cyc.pre.data = Null \/ cyc.pre.time = Null)) =>
        /\ ~loading
        /\ data = Null
        /\ ~usingCachedData
        /\ error # Null /\ error.msg = cyc.lastMsg

\* C4 as stated: after every successful fetch the cache holds that cycle's
\* dataset and timestamp.
C4_Original ==
    (CycleOver /\ WellFormed(cyc.got)) =>
        storage = [data |-> JSONstringify(cyc.fresh), time |-> Iso(cyc.n)]

\* C4 amended: after every successful fetch whose cache write did not throw,
\* the cache holds that cycle's dataset and timestamp in place of what was
\* stored before; the dataset served in Degraded mode is the one of the most
\* recent successful cycle whose dataset write succeeded.
C4_CacheHoldsLatestStoredCycle ==
    /\ (CycleOver /\ WellFormed(cyc.got) /\ cyc.wr = "ok") =>
          storage = [data |-> JSONstringify(cyc.fresh), time |-> Iso(cyc.n)]
    /\ (CycleOver /\ usingCachedData /\ lastStored # Null) =>
          data = JSONparse(JSONstringify(lastStored))

\* C4 witness: a Degraded cycle serves the dataset that a later successful
\* cycle wrote over an earlier snapshot
C4_Witness ==
    /\ CycleOver /\ usingCachedData /\ cyc.n = 3
    /\ lastStored = Dataset(<<2>>, "absent")
    /\ cacheTimestamp = Iso(2)

\* C5: no failure of the durable cache escapes the cycle: a throwing write
\* still ends in Success, a throwing or unparseable read ends in Failed and
\* fetchData does not reject (stated as the claim has it).
C5_CacheFailuresSwallowed ==
    CycleOver =>
        /\ ~cyc.rejected
        /\ (cyc.wr \in {"throw1", "throw2"}) => OutSuccess
        /\ (cyc.readThrew \/ cyc.parseThrew) => OutFailed

\* C6: every cycle eventually leaves Fetching (stated as the claim has it).
C6_CycleLeavesFetching == loading ~> ~loading

DataReturned == epc = "done" /\ response.kind = "data"

\* an output record cut back to the fields the upstream sent
OriginalOf(e) == [k \in DOMAIN ServiceRequest(NullStr, NullStr) |-> e[k]]

IdsOf(rel) == {rel[i].serviceWorkflowToServiceStatusId : i \in 1..Len(rel)}

Occurrences(s, x) == Cardinality({i \in 1..Len(s) : s[i] = x})

\* the label a record gets without a resolved name
FallbackLabel(sr) ==
    IF TruthyStr(sr.requestStatus) THEN formatStatus(sr.requestStatus) ELSE UnknownLabel

\* C8 as stated: the output holds exactly the fetched records whose
\* serviceWorkflowToServiceStatusId is not null, in fetch order.
C8_Original ==
    DataReturned =>
        SeqMap(OriginalOf, response.data)
          = SelectSeq(allServiceRequests,
                      LAMBDA sr : sr.serviceWorkflowToServiceStatusId # NullStr)

\* C8 amended: the output holds exactly the fetched records whose
\* serviceWorkflowToServiceStatusId is truthy (neither null nor empty), in
\* fetch order: none without it is output, none with it is dropped.
C8_OutputIsTruthyIdRecords ==
    DataReturned =>
        SeqMap(OriginalOf, response.data)
          = SelectSeq(allServiceRequests,
                      LAMBDA sr : TruthyStr(sr.serviceWorkflowToServiceStatusId))

\* C8 witness: of two fetched records the one with an empty identifier is
\* dropped and the other is output
C8_Witness ==
    /\ DataReturned
    /\ Len(allServiceRequests) = 2 /\ Len(response.data) = 1
    /\ allServiceRequests[1].serviceWorkflowToServiceStatusId = EmptyStr
    /\ OriginalOf(response.data[1]) = allServiceRequests[2]

\* C9: in one run a lookup is issued exactly once for each distinct identifier
\* of the included records and for no other identifier, and the name map of a
\* finished run holds this run's resolved names and nothing else.
C9_OneLookupPerDistinctId ==
    /\ \A i \in 1..Len(requests) : Occurrences(requests, requests[i]) = 1
    /\ (epc \in {"lookups", "done"}) =>
          {requests[i] : i \in 1..Len(requests)} \subseteq IdsOf(relevant)
    /\ DataReturned =>
          /\ {requests[i] : i \in 1..Len(requests)} = IdsOf(relevant)
          /\ DOMAIN statusNameMap = {id \in DOMAIN replies : replies[id].st = "fulfilled"}
          /\ \A id \in DOMAIN statusNameMap : statusNameMap[id] = replies[id].name

\* C9 witness: two included records share one identifier and one lookup was issued
C9_Witness ==
    /\ DataReturned
    /\ Len(relevant) = 2
    /\ relevant[1].serviceWorkflowToServiceStatusId = relevant[2].serviceWorkflowToServiceStatusId
    /\ Len(requests) = 1
    /\ DOMAIN statusNameMap = {requests[1]}

\* C10 as stated: with a failed lookup the run still returns data, every record
\* of a successfully resolved identifier gets the resolved name, every record
\* of the failed identifier gets the formatted requestStatus or "Unknown".
C10_Original ==
    (epc = "done" /\ \E id \in DOMAIN replies : replies[id].st = "rejected") =>
        /\ response.kind = "data"
        /\ \A i \in 1..Len(relevant) :
             LET sr  == relevant[i]
                 rep == replies[sr.serviceWorkflowToServiceStatusId]
             IN  /\ rep.st = "fulfilled" => response.data[i].statusName = rep.name
                 /\ rep.st = "rejected" => response.data[i].statusName = FallbackLabel(sr)

\* C10 amended: with a failed lookup the run still returns data, every record
\* of an identifier resolved to a non-empty name gets that name, and every
\* record of the failed identifier (or of one resolved without a name) gets
\* the formatted requestStatus, or "Unknown" when it has no requestStatus.
C10_FailedLookupIsIsolated ==
    (epc = "done" /\ \E id \in DOMAIN replies : replies[id].st = "rejected") =>
        /\ response.kind = "data"
        /\ Len(response.data) = Len(relevant)
        /\ \A i \in 1..Len(relevant) :
             LET sr  == relevant[i]
                 rep == replies[sr.serviceWorkflowToServiceStatusId]
             IN  IF rep.st = "fulfilled" /\ rep.name # EmptyStr
                 THEN response.data[i].statusName = rep.name
                 ELSE response.data[i].statusName = FallbackLabel(sr)

\* C10 witness: one identifier failed and its record shows "Foo Bar", the
\* other resolved and its record shows "Ready"
C10_Witness ==
    /\ DataReturned /\ Len(relevant) = 2
    /\ replies[relevant[1].serviceWorkflowToServiceStatusId].st = "rejected"
    /\ response.data[1].statusName = <<"F", "o", "o", " ", "B", "a", "r">>
    /\ replies[relevant[2].serviceWorkflowToServiceStatusId].st = "fulfilled"
    /\ response.data[2].statusName = S_Ready

\* the answered pages 0 .. n-1 of the log joined in ascending skip order
PagePrefix(log, n) == Flat([i \in 1..n |-> log[i - 1].items])

\* page p ends the retrieval: it is short, or the ceiling is reached with it
StopsAt(log, p) ==
    /\ p \in DOMAIN log /\ log[p].st = "ok"
    /\ \/ Len(log[p].items) < pageSize
       \/ Len(PagePrefix(log, p + 1)) >= maxRecords

\* the handler has all the pages it waits for
PagesCollected == epc = "lookups" \/ DataReturned

\* C11: page retrieval is bounded and stops at the first page that is short
\* or reaches the ceiling: the pages requested are exactly those with
\* skip = 0, pageSize, ... up to that stopping page, and the collected list is
\* their concatenation in ascending skip order (stated as the claim has it).
C11_PaginationStopsAtShortPage ==
    /\ \A p \in DOMAIN pageLog : p * pageSize < maxRecords
    /\ PagesCollected =>
          \E stop \in DOMAIN pageLog :
              /\ DOMAIN pageLog = 0..stop
              /\ StopsAt(pageLog, stop)
              /\ \A q \in 0..(stop - 1) : ~StopsAt(pageLog, q)
              /\ allServiceRequests = PagePrefix(pageLog, stop + 1)

\* ------------------------------------------------------------------------
\* Enriched records and the report: properties
\* ------------------------------------------------------------------------

\* C12: every enriched record holds each field of its upstream record with
\* the upstream value (stated as the claim has it).
C12_OriginalFieldsUntouched ==
    (mounted /\ originHandler # "none") =>
        \A i \in 1..Len(origin) :
            \A k \in DOMAIN origin[i] : processedData[i][k] = origin[i][k]

\* a date rendered with and without its year
WithoutYear(value) ==
    MonthShort(SubSeq(value, 6, 7)) \o <<" ">> \o DayNumeric(SubSeq(value, 8, 9))
WithYear(value) == WithoutYear(value) \o <<",", " ">> \o getFullYear(value)

\* every custom-field date of the record is in the current year
CustomDatesThisYear(sr) ==
    \A e \in CUSTOM_FIELD_MAP :
        IsEpoch(Get(sr.customFields, e[1])) =>
            getFullYear(sr.customFields[e[1]]) = currentYear

\* the custom-field dates of the records the parallel handler enriched are
\* rendered without the year exactly when elide(sr) holds
YearElidedWhen(elide(_)) ==
    (mounted /\ originHandler = "parallel") =>
        \A i \in 1..Len(origin) :
            HasCustomFields(origin[i]) =>
                \A e \in CUSTOM_FIELD_MAP :
                    IsEpoch(Get(origin[i].customFields, e[1])) =>
                        processedData[i][e[2]] =
                            IF elide(origin[i])
                            THEN WithoutYear(origin[i].customFields[e[1]])
                            ELSE WithYear(origin[i].customFields[e[1]])

\* the record's due date, when it has one, is in the current year
DueDateThisYearIfAny(sr) ==
    IsNumber(Get(sr, "dueDate")) => getFullYear(sr.dueDate) = currentYear

\* C13 as stated: a custom-field date is rendered without its year if and
\* only if it and every other date of the record are in the current year.
C13_Original ==
    YearElidedWhen(LAMBDA sr : CustomDatesThisYear(sr) /\ DueDateThisYearIfAny(sr))

\* C13 amended: a custom-field date is rendered without its year if and only
\* if the record has a numeric dueDate in the current year and every
\* custom-field date of the record is in the current year; otherwise all the
\* record's custom-field dates are rendered with the year.
C13_YearElidedWithDueDateThisYear ==
    YearElidedWhen(LAMBDA sr : /\ IsNumber(Get(sr, "dueDate"))
                               /\ getFullYear(sr.dueDate) = currentYear
                               /\ CustomDatesThisYear(sr))

\* C13 witness: one record's date is rendered "Mar 1", the same date of
\* another record that also carries a 2025 date is rendered with its year
C13_Witness ==
    /\ mounted /\ originHandler = "parallel" /\ Len(processedData) = 2
    /\ Get(processedData[1], "cpWalkDate") = <<"M", "a", "r", " ", "1">>
    /\ Get(processedData[2], "cpWalkDate") = <<"M", "a", "r", " ", "1", ",", " ", "2", "0", "2", "6">>
    /\ Get(processedData[2], "moveIn") = <<"N", "o", "v", " ", "2", "3", ",", " ", "2", "0", "2", "5">>
    /\ IsNumber(Get(origin[2], "dueDate")) /\ getFullYear(origin[2].dueDate) = currentYear

\* none of the field's candidate keys holds a value in the entry
HoldsNoValue(entry, field) ==
    \A i \in 1..Len(Candidates[field]) : ~TruthyStr(Get(entry, Candidates[field][i]))

\* C14: when none of a field's candidate keys holds a value, the Task has the
\* field's default: "UNKNOWN" for status, "Untitled" for title, the empty
\* string for the others (for date, null is accepted as well as "").
C14_DefaultsWhenNoCandidate ==
    mounted =>
        \A i \in 1..Len(processedData) :
            \A field \in CanonicalFields :
                HoldsNoValue(processedData[i], field) =>
                    IF field = "date"
                    THEN normalizedData[i][field] \in {NullStr, EmptyStr}
                    ELSE normalizedData[i][field] = Default(field)

\* C15: every key of the entry that is no canonical field is on the Task with
\* the entry's value, and every canonical field of the Task has the value its
\* candidate keys or default resolved to.
C15_PassthroughKeepsResolved ==
    mounted =>
        \A i \in 1..Len(processedData) :
            /\ \A k \in DOMAIN processedData[i] \ CanonicalFields :
                   normalizedData[i][k] = processedData[i][k]
            /\ \A field \in CanonicalFields :
                   normalizedData[i][field] = Resolved(processedData[i])[field]

\* C16: an entry whose time value is the literal "All Day" gives a Task with
\* an empty time.
C16_AllDayTimeIsEmpty ==
    mounted =>
        \A i \in 1..Len(processedData) :
            FirstTruthy(processedData[i], Candidates.time, EmptyStr) = S_AllDay =>
                normalizedData[i].time = EmptyStr

\* C17: normalizeEntry applied to its own output leaves every canonical field
\* as the first application set it.
C17_NormalizeIdempotent ==
    mounted =>
        \A i \in 1..Len(processedData) :
            \A field \in CanonicalFields :
                normalizeEntry(normalizeEntry(processedData[i]))[field]
                    = normalizeEntry(processedData[i])[field]

\* C17 witness: an entry whose status came from the legacy key "Status" and
\* whose title was defaulted is normalized a second time
C17_Witness ==
    /\ mounted
    /\ \E i \in 1..Len(processedData) :
          /\ "Status" \in DOMAIN processedData[i]
          /\ "status" \notin DOMAIN processedData[i]
          /\ normalizedData[i] # processedData[i]
          /\ normalizedData[i].status = S_Open
          /\ normalizeEntry(normalizedData[i]).status = S_Open
          /\ normalizeEntry(normalizedData[i]).title = S_Untitled

Digits == {"0", "1", "2", "3", "4", "5", "6", "7", "8", "9"}

\* a string of the form YYYY-MM-DD
IsCalendarDate(str) ==
    /\ Len(str) = 10
    /\ str[5] = "-" /\ str[8] = "-"
    /\ \A i \in {1, 2, 3, 4, 6, 7, 9, 10} : str[i] \in Digits

\* C18: every bucket that holds a record coming from the enrichment is keyed
\* by a calendar date YYYY-MM-DD or by "No Date".
C18_EnrichedBucketsKeyedByDate ==
    (mounted /\ originHandler # "none") =>
        \A b \in 1..Len(groupedData) :
            groupedData[b].key = NoDate \/ IsCalendarDate(groupedData[b].key)

\* C19: the Task of an enriched record with a non-empty statusName has that
\* statusName as its status.
C19_StatusIsStatusName ==
    (mounted /\ originHandler # "none") =>
        \A i \in 1..Len(processedData) :
            TruthyStr(Get(processedData[i], "statusName")) =>
                normalizedData[i].status = processedData[i].statusName

RECURSIVE SumOfSizes(_)
SumOfSizes(buckets) ==
    IF buckets = <<>> THEN 0 ELSE Len(Head(buckets).tasks) + SumOfSizes(Tail(buckets))

\* the tasks whose date, or "No Date" without one, is the key, in input order
TasksOfKey(tasks, key) == SelectSeq(tasks, LAMBDA t : BucketKey(t) = key)

\* C20: the buckets partition the task list: their keys are pairwise
\* distinct, every task's key has a bucket, each bucket holds exactly the
\* tasks of its key in input order, and the sizes sum to the number of tasks.
C20_GroupingIsPartition ==
    mounted =>
        /\ \A a, b \in 1..Len(groupedData) :
               groupedData[a].key = groupedData[b].key => a = b
        /\ \A i \in 1..Len(normalizedData) :
               \E b \in 1..Len(groupedData) :
                   groupedData[b].key = BucketKey(normalizedData[i])
        /\ \A b \in 1..Len(groupedData) :
               /\ groupedData[b].tasks # <<>>
               /\ groupedData[b].tasks = TasksOfKey(normalizedData, groupedData[b].key)
        /\ SumOfSizes(groupedData) = Len(normalizedData)

\* C20 witness: two different tasks of one date share a bucket, in input order
C20_Witness ==
    /\ mounted
    /\ Len(normalizedData) = 2
    /\ normalizedData[1] # normalizedData[2]
    /\ Len(groupedData) = 1
    /\ groupedData[1].key = D_Feb23
    /\ groupedData[1].tasks = <<normalizedData[1], normalizedData[2]>>

\* ------------------------------------------------------------------------
\* ReportGenerator: sorted dates, month groups and the month window
\* ------------------------------------------------------------------------
DigitChars == <<"0", "1", "2", "3", "4", "5", "6", "7", "8", "9">>
NaN == -1000000

\* n - 1 in floating point
MinusOne(n) == IF n = NaN THEN NaN ELSE n - 1

DigitValue(c) == CHOOSE n \in 0..9 : DigitChars[n + 1] = c

\* parseInt(str): the number its leading digits spell, NaN without any
RECURSIVE ParseDigits(_, _)
ParseDigits(str, acc) ==
    IF str = <<>> \/ Head(str) \notin Digits THEN acc
    ELSE ParseDigits(Tail(str), acc * 10 + DigitValue(Head(str)))

parseInt(str) == IF str = <<>> \/ Head(str) \notin Digits THEN NaN ELSE ParseDigits(str, 0)

\* String(n) of a natural number
RECURSIVE NatToString(_)
NatToString(n) ==
    IF n < 10 THEN <<DigitChars[n + 1]>>
    ELSE NatToString(n \div 10) \o <<DigitChars[(n % 10) + 1]>>

TwoDigits(n) == <<DigitChars[(n \div 10) + 1], DigitChars[(n % 10) + 1]>>

\* str.split('-')
RECURSIVE SplitDash(_, _)
SplitDash(str, part) ==
    IF str = <<>> THEN <<part>>
    ELSE IF Head(str) = "-" THEN <<part>> \o SplitDash(Tail(str), <<>>)
         ELSE SplitDash(Tail(str), Append(part, Head(str)))

\* Date objects: a day of the local calendar, or an Invalid Date
InvalidDate == [kind |-> "invalid"]
LocalDate(year, month, day) ==
    IF year = NaN \/ month = NaN \/ day = NaN THEN InvalidDate
    ELSE [kind |-> "date", year |-> year + ((month - (month % 12)) \div 12),
          month |-> month % 12, day |-> day]

\* date.getTime(), in days of a calendar of 31-day months; NaN for Invalid Date
getTime(date) ==
    IF date.kind = "date" THEN (date.year * 12 + date.month) * 31 + date.day ELSE NaN

S_Noon == <<"T", "1", "2", ":", "0", "0", ":", "0", "0">>

\* new Date(str) of a date-time string YYYY-MM-DDTHH:mm:ss, Invalid Date otherwise
DateOfDateTime(str) ==
    IF Len(str) = 19 /\ IsCalendarDate(SubSeq(str, 1, 10)) /\ SubSeq(str, 11, 19) = S_Noon
    THEN LocalDate(parseInt(SubSeq(str, 1, 4)), MinusOne(parseInt(SubSeq(str, 6, 7))),
                   parseInt(SubSeq(str, 9, 10)))
    ELSE InvalidDate

\* parseLocalDate(dateString)
parseLocalDate(dateString) ==
    IF ~TruthyStr(dateString) \/ dateString = NoDate THEN Null
    ELSE LET parts == SplitDash(dateString, <<>>)
         IN  IF Len(parts) = 3
             THEN LocalDate(parseInt(parts[1]), MinusOne(parseInt(parts[2])), parseInt(parts[3]))
             ELSE DateOfDateTime(dateString \o S_Noon)

S_InvalidDate == <<"I", "n", "v", "a", "l", "i", "d", " ", "D", "a", "t", "e">>

\* date.toLocaleDateString('en-US', { year: 'numeric', month: 'short' })
MonthKey(date) ==
    IF date.kind = "date"
    THEN MonthShort(TwoDigits(date.month + 1)) \o <<" ">> \o NatToString(date.year)
    ELSE S_InvalidDate

\* new Date(month + ' 1'): the first day of a month written "Mmm YYYY"
DateOfMonthKey(month) ==
    IF /\ Len(month) = 8
       /\ \E m \in 1..12 : MonthShort(TwoDigits(m)) = SubSeq(month, 1, 3)
       /\ month[4] = " "
       /\ \A i \in 5..8 : month[i] \in Digits
    THEN LocalDate(parseInt(SubSeq(month, 5, 8)),
                   (CHOOSE m \in 1..12 : MonthShort(TwoDigits(m)) = SubSeq(month, 1, 3)) - 1,
                   1)
    ELSE InvalidDate

\* a - b in floating point
Difference(a, b) == IF a = NaN \/ b = NaN THEN NaN ELSE a - b

\* the comparator of sortedDates
CompareDates(a, b) ==
    IF a = NoDate THEN 1
    ELSE IF b = NoDate THEN -1
    ELSE LET dateA == parseLocalDate(a)
             dateB == parseLocalDate(b)
         IN  IF dateA = Null \/ dateB = Null THEN 0
             ELSE Difference(getTime(dateA), getTime(dateB))

\* the comparator of sortedMonthKeys
CompareMonths(a, b) ==
    IF a = NoDate THEN 1
    ELSE IF b = NoDate THEN -1
    ELSE Difference(getTime(DateOfMonthKey(a)), getTime(DateOfMonthKey(b)))

Compare(kind, a, b) == IF kind = "date" THEN CompareDates(a, b) ELSE CompareMonths(a, b)

\* Array.prototype.sort: stable; an element moves in front of those the
\* comparator puts after it (a NaN result counts as 0)
RECURSIVE InsertSorted(_, _, _)
InsertSorted(kind, sorted, x) ==
    IF sorted = <<>> THEN <<x>>
    ELSE LET last == sorted[Len(sorted)]
             c    == Compare(kind, last, x)
         IN  IF c # NaN /\ c > 0
             THEN Append(InsertSorted(kind, SubSeq(sorted, 1, Len(sorted) - 1), x), last)
             ELSE Append(sorted, x)

\* a sort that leaves the keys as they come
Sort_Unsorted(kind, list) == list

RECURSIVE Sort(_, _)
Sort(kind, list) ==
    IF list = <<>> THEN <<>>
    ELSE InsertSorted(kind, Sort(kind, SubSeq(list, 1, Len(list) - 1)), list[Len(list)])

\* Object.keys of an object kept as a sequence of [key, ...] in insertion order
Keys(object) == [i \in 1..Len(object) |-> object[i].key]

sortedDates == Sort("date", Keys(groupedData))

\* month groups that take the month from the text of the key
MonthOf_FromText(date) == SubSeq(date, 1, 7)

\* the month key of a dated bucket
MonthOf(date) == MonthKey(parseLocalDate(date))

\* a forEach that starts the month's list anew with every date
RECURSIVE MonthGroupsOf_Overwrites(_, _)
MonthGroupsOf_Overwrites(dates, acc) ==
    IF dates = <<>> THEN acc
    ELSE LET date == Head(dates)
             key  == IF date = NoDate THEN NoDate ELSE MonthOf(date)
             at   == {i \in 1..Len(acc) : acc[i].key = key}
         IN  IF at = {}
             THEN MonthGroupsOf_Overwrites(Tail(dates),
                                           Append(acc, [key |-> key, dates |-> <<date>>]))
             ELSE MonthGroupsOf_Overwrites(Tail(dates),
                     [i \in 1..Len(acc) |->
                         IF i \in at THEN [key |-> key, dates |-> <<date>>] ELSE acc[i]])

\* the forEach of getMonthGroups: monthGroups as [key, dates] in insertion order
RECURSIVE MonthGroupsOf(_, _)
MonthGroupsOf(dates, acc) ==
    IF dates = <<>> THEN acc
    ELSE LET date == Head(dates)
             key  == IF date = NoDate THEN NoDate ELSE MonthOf(date)
             at   == {i \in 1..Len(acc) : acc[i].key = key}
         IN  IF date # NoDate /\ parseLocalDate(date) = Null
             THEN MonthGroupsOf(Tail(dates), acc)
             ELSE IF at = {}
             THEN MonthGroupsOf(Tail(dates), Append(acc, [key |-> key, dates |-> <<date>>]))
             ELSE MonthGroupsOf(Tail(dates),
                     [i \in 1..Len(acc) |->
                         IF i \in at
                         THEN [key |-> key,
                               dates |-> IF date = NoDate THEN <<NoDate>>
                                         ELSE Append(acc[i].dates, date)]
                         ELSE acc[i]])

monthGroups == MonthGroupsOf(sortedDates, <<>>)
sortedMonthKeys == Sort("month", Keys(monthGroups))

\* monthGroups[month]
MonthDates(month) ==
    LET groups == monthGroups
        at     == {i \in 1..Len(groups) : groups[i].key = month}
    IN  IF at = {} THEN <<>> ELSE groups[CHOOSE i \in at : TRUE].dates

timelineMonths == SelectSeq(sortedMonthKeys, LAMBDA month : month # NoDate)
hasNoDateEntries ==
    LET keys == sortedMonthKeys IN \E i \in 1..Len(keys) : keys[i] = NoDate

Max(a, b) == IF a > b THEN a ELSE b

RECURSIVE DatesOfMonths(_)
DatesOfMonths(months) ==
    IF months = <<>> THEN <<>> ELSE MonthDates(Head(months)) \o DatesOfMonths(Tail(months))

\* a filter that shows "No Date" only with the full window
getFilteredDates_NoDateWithFullWindow(range) ==
    LET months  == timelineMonths
        hasNone == hasNoDateEntries
    IN  IF Len(months) = 0 THEN (IF hasNone THEN <<NoDate>> ELSE <<>>)
        ELSE LET validStartIndex == Max(0, Min(range[1], Len(months) - 1))
                 validEndIndex   == Max(validStartIndex, Min(range[2], Len(months) - 1))
                 selectedMonths  == SubSeq(months, validStartIndex + 1, validEndIndex + 1)
             IN  DatesOfMonths(selectedMonths)
                   \o (IF hasNone /\ selectedMonths = months
                       THEN <<NoDate>> ELSE <<>>)

\* a filter whose slice leaves out the month at validEndIndex
getFilteredDates_SliceExclusive(range) ==
    LET months  == timelineMonths
        hasNone == hasNoDateEntries
    IN  IF Len(months) = 0 THEN (IF hasNone THEN <<NoDate>> ELSE <<>>)
        ELSE LET validStartIndex == Max(0, Min(range[1], Len(months) - 1))
                 validEndIndex   == Max(validStartIndex, Min(range[2], Len(months) - 1))
                 selectedMonths  == SubSeq(months, validStartIndex + 1, validEndIndex)
             IN  DatesOfMonths(selectedMonths)
                   \o (IF hasNone THEN <<NoDate>> ELSE <<>>)

\* getFilteredDates with dateRange = range
getFilteredDates(range) ==
    LET months  == timelineMonths
        hasNone == hasNoDateEntries
    IN  IF Len(months) = 0 THEN (IF hasNone THEN <<NoDate>> ELSE <<>>)
        ELSE LET validStartIndex == Max(0, Min(range[1], Len(months) - 1))
                 validEndIndex   == Max(validStartIndex, Min(range[2], Len(months) - 1))
                 selectedMonths  == SubSeq(months, validStartIndex + 1, validEndIndex + 1)
             IN  DatesOfMonths(selectedMonths)
                   \o (IF hasNone THEN <<NoDate>> ELSE <<>>)

filteredDates == getFilteredDates(dateRange)

D_Nov23 == <<"2", "0", "2", "5", "-", "1", "1", "-", "2", "3">>
D_Mar05 == <<"2", "0", "2", "6", "-", "0", "3", "-", "0", "5">>

\* entries of an earlier data source, as far as their date goes
DatedEntries ==
    { <<>>,
      ("date" :> D_Nov23),
      ("date" :> D_Feb23),
      ("date" :> D_Mar01),
      ("date" :> D_Mar05) }

\* upstream service requests with or without a due date
DueRequests ==
    { ServiceRequest(S_idA, S_onHold),
      Spread(ServiceRequest(S_idA, S_onHold), ("dueDate" :> Epoch(currentYear, M02, D23))),
      Spread(ServiceRequest(S_idA, S_onHold), ("dueDate" :> Epoch(Y2025, M11, D23))) }

DatedLists == UNION {[1..n -> DatedEntries] : n \in 0..MaxDated}
DueLists == UNION {[1..n -> DueRequests] : n \in 0..MaxDated}

\* the days new Date() may give the effect, all of currentYear
Today == { LocalDate(parseInt(currentYear), 0, 15),
           LocalDate(parseInt(currentYear), 2, 15),
           LocalDate(parseInt(currentYear), 11, 15) }

\* the report is mounted with entries of an earlier data source
RenderDated ==
    /\ ~mounted
    /\ \E entries \in DatedLists : Render(entries, <<>>, "none")

\* the report is mounted with what the enrichment returned for up
RenderDue ==
    /\ ~mounted
    /\ \E up \in DueLists, v \in {"parallel", "sequential"} :
           Render(Enriched(up, EmptyMap, EmptyMap, v), up, v)

\* timelineMonths.findIndex(month => new Date(month + ' 1') >= currentDate), -1 if none
FindStartIndex(currentMonthKey) ==
    LET currentDate == DateOfMonthKey(currentMonthKey)
        found == {i \in 1..Len(timelineMonths) :
                     LET monthDate == DateOfMonthKey(timelineMonths[i])
                     IN  /\ getTime(monthDate) # NaN
                         /\ getTime(currentDate) # NaN
                         /\ getTime(monthDate) >= getTime(currentDate)}
    IN  IF found = {} THEN -1 ELSE (CHOOSE i \in found : \A j \in found : i <= j) - 1

\* an effect that always opens on the whole timeline
DefaultRange_WholeTimeline(today) ==
    IF Len(timelineMonths) > 0 THEN <<0, Len(timelineMonths) - 1>> ELSE <<0, 0>>

\* the range the effect sets when new Date() is today
DefaultRange(today) ==
    IF Len(timelineMonths) > 0
    THEN LET startIndex == FindStartIndex(MonthKey(today))
         IN  <<IF startIndex = -1 THEN Len(timelineMonths) - 1 ELSE startIndex,
               Len(timelineMonths) - 1>>
    ELSE <<0, 0>>

\* useEffect(..., [timelineMonths.length]) after the mount
DefaultWindowEffect ==
    /\ mounted /\ ~effectRan
    /\ \E today \in Today :
          /\ effectNow' = today
          /\ dateRange' = DefaultRange(today)
    /\ effectRan' = TRUE
    /\ rangeSetBy' = "effect"
    /\ UNCHANGED <<mounted, originHandler, origin, processedData, normalizedData, groupedData>>
    /\ UNCHANGED <<fetchVars, enrichVars>>

\* the values the Slider hands to onValueChange: min 0, max
\* timelineMonths.length - 1, step 1, the two thumbs in ascending order
SliderValues ==
    {<<a, b>> : a \in 0..(Len(timelineMonths) - 1), b \in 0..(Len(timelineMonths) - 1)}
        \cap {r \in Int \X Int : r[1] <= r[2]}

\* onValueChange={(value) => setDateRange(value)}
SliderChange ==
    /\ mounted /\ effectRan
    /\ Len(timelineMonths) > 0
    /\ \E value \in SliderValues : dateRange' = value
    /\ rangeSetBy' = "slider"
    /\ UNCHANGED <<mounted, originHandler, origin, processedData, normalizedData, groupedData,
                   effectRan, effectNow>>
    /\ UNCHANGED <<fetchVars, enrichVars>>

\* resetRange
ResetRange ==
    /\ mounted /\ effectRan
    /\ dateRange' = IF Len(timelineMonths) > 0 THEN <<0, Len(timelineMonths) - 1>> ELSE <<0, 0>>
    /\ rangeSetBy' = "reset"
    /\ UNCHANGED <<mounted, originHandler, origin, processedData, normalizedData, groupedData,
                   effectRan, effectNow>>
    /\ UNCHANGED <<fetchVars, enrichVars>>

NextWindow ==
    \/ RenderDated
    \/ RenderDue
    \/ DefaultWindowEffect
    \/ SliderChange
    \/ ResetRange
    \/ Unmount

SpecWindow == InitReportSpec /\ [][NextWindow]_vars

\* ------------------------------------------------------------------------
\* The month window: properties
\* ------------------------------------------------------------------------

\* the tasks of the bucket with this key
BucketTasks(key) ==
    groupedData[CHOOSE b \in 1..Len(groupedData) : groupedData[b].key = key].tasks

\* the calendar day a task's date stands for, as the number yyyymmdd
DayOf(value) ==
    IF IsEpoch(value) THEN parseInt(SubSeq(value, 2, 9))
    ELSE parseInt(SubSeq(value, 1, 4) \o SubSeq(value, 6, 7) \o SubSeq(value, 9, 10))

\* the dated buckets of list are in ascending order of their tasks' day
Chronological(list) ==
    \A i, j \in 1..Len(list) :
        (i < j /\ list[i] # NoDate /\ list[j] # NoDate) =>
            DayOf(BucketTasks(list[i])[1].date) <= DayOf(BucketTasks(list[j])[1].date)

\* "No Date", when in list, is its last element
NoDateLast(list) ==
    \A i \in 1..Len(list) : list[i] = NoDate => i = Len(list)

\* C21: sortedDates lists the dated buckets in ascending chronological order
\* and "No Date" last, in whatever order the buckets were created.
C21_SortedDatesChronological ==
    mounted =>
        /\ Chronological(sortedDates)
        /\ NoDateLast(sortedDates)

\* the same for the entries whose date is a calendar string
C21_CalendarKeysChronological ==
    (mounted /\ originHandler = "none") =>
        /\ Chronological(sortedDates)
        /\ NoDateLast(sortedDates)

\* how often x occurs in list
CountIn(list, x) == Cardinality({i \in 1..Len(list) : list[i] = x})

RECURSIVE AllGroupDates(_)
AllGroupDates(groups) ==
    IF groups = <<>> THEN <<>> ELSE Head(groups).dates \o AllGroupDates(Tail(groups))

\* C22: the month groups partition the date buckets: every bucket is in the
\* lists of the groups exactly once, the lists hold nothing but buckets, the
\* group keys are distinct, and "No Date" is alone in its own group.
C22_MonthGroupsPartitionBuckets ==
    mounted =>
        LET groups == monthGroups
            all    == AllGroupDates(groups)
        IN  /\ \A b \in 1..Len(groupedData) : CountIn(all, groupedData[b].key) = 1
            /\ \A i \in 1..Len(all) :
                   \E b \in 1..Len(groupedData) : groupedData[b].key = all[i]
            /\ \A g, h \in 1..Len(groups) : groups[g].key = groups[h].key => g = h
            /\ \A g \in 1..Len(groups) :
                   (groups[g].key = NoDate \/ CountIn(groups[g].dates, NoDate) > 0)
                       => /\ groups[g].key = NoDate
                          /\ groups[g].dates = <<NoDate>>

\* C22 witness: two buckets of one month share a group next to the group of
\* "No Date"
C22_Witness ==
    /\ mounted
    /\ Len(monthGroups) = 2
    /\ monthGroups[1].dates = <<D_Mar01, D_Mar05>>
    /\ monthGroups[2] = [key |-> NoDate, dates |-> <<NoDate>>]

\* C23: the stored selection is within the month timeline:
\* 0 <= start <= end <= lastMonthIndex, from the initial render on.
C23_DateRangeWithinTimeline ==
    mounted =>
        /\ 0 <= dateRange[1]
        /\ dateRange[1] <= dateRange[2]
        /\ dateRange[2] <= Len(timelineMonths) - 1

\* the year and month, as the number yyyymm, of the buckets of a timeline month
YearMonthOf(month) == DayOf(BucketTasks(MonthDates(month)[1])[1].date) \div 100

\* the window of the first load: from the first timeline month that is not
\* before the month of today to the last month
FirstLoadWindow(today) ==
    LET last      == Len(timelineMonths) - 1
        notBefore == {i \in 0..last :
                         YearMonthOf(timelineMonths[i + 1]) >= today.year * 100 + today.month + 1}
    IN  IF last < 0 THEN <<0, 0>>
        ELSE IF notBefore = {} THEN <<last, last>>
        ELSE <<CHOOSE i \in notBefore : \A j \in notBefore : i <= j, last>>

\* C24: the effect of the first load sets the window to [i, last], i the first
\* timeline month not before the current month, to [last, last] when every
\* month is before it, and to [0, 0] with an empty timeline.
C24_FirstLoadWindow ==
    (mounted /\ rangeSetBy = "effect") => dateRange = FirstLoadWindow(effectNow)

\* C24 witness: today is in January 2026 and the timeline is Nov 2025,
\* Feb 2026, Mar 2026: the effect has set the window to [1, 2]
C24_Witness ==
    /\ mounted /\ rangeSetBy = "effect"
    /\ effectNow = LocalDate(2026, 0, 15)
    /\ Len(timelineMonths) = 3
    /\ YearMonthOf(timelineMonths[1]) = 202511
    /\ dateRange = <<1, 2>>

\* the date is "No Date" or in the group of a timeline month whose index is
\* in range
InWindow(date, range) ==
    \/ date = NoDate
    \/ LET months == timelineMonths
       IN  \E i \in 0..(Len(months) - 1) :
              /\ range[1] <= i /\ i <= range[2]
              /\ CountIn(MonthDates(months[i + 1]), date) > 0

RECURSIVE TasksOfDates(_)
TasksOfDates(dates) ==
    IF dates = <<>> THEN <<>> ELSE BucketTasks(Head(dates)) \o TasksOfDates(Tail(dates))

AnyRange ==
    LET n == Len(timelineMonths)
    IN  {<<a, b>> : a \in (-1)..n, b \in (-1)..n} \cup {<<0, 100>>}

\* at least one task has no date
SomeTaskUndated ==
    \E i \in 1..Len(normalizedData) : ~TruthyStr(Get(normalizedData[i], "date"))

\* C26: when at least one task has no date, "No Date" is among the visible
\* buckets exactly once for every value of dateRange, out-of-range values and
\* the empty timeline included.
C26_NoDateAlwaysVisibleOnce ==
    (mounted /\ SomeTaskUndated) =>
        /\ CountIn(filteredDates, NoDate) = 1
        /\ \A range \in AnyRange : CountIn(getFilteredDates(range), NoDate) = 1

\* C26 witness: the slider has narrowed the window to the first of two months
\* and the undated tasks are still shown, after that month's bucket
C26_Witness ==
    /\ mounted /\ rangeSetBy = "slider" /\ SomeTaskUndated
    /\ Len(timelineMonths) = 2
    /\ dateRange = <<0, 0>>
    /\ filteredDates = <<D_Nov23, NoDate>>

\* ------------------------------------------------------------------------
\* Enrichment: concurrency and page failures
\* ------------------------------------------------------------------------

\* the lookups issued and not yet settled
PendingLookups == {id \in DOMAIN inflight : inflight[id].st = "pending"}

\* the batch the j-th lookup of the run was issued in
BatchOf(j) == (j - 1) \div BATCH_SIZE

SomePageFailed ==
    evariant = "parallel" /\ \E p \in DOMAIN pageLog : pageLog[p].st = "failed"

\* the records of the pages answered so far that carry a status reference
SucceededRecords ==
    UNION {{Relevant(pageLog[p].items)[i] : i \in 1..Len(Relevant(pageLog[p].items))} :
              p \in {q \in DOMAIN pageLog : pageLog[q].st = "ok"}}

\* C28: in the concurrent page retrieval a failed page request does not abort
\* the run: the response the handler returns is the enriched data, and it holds
\* the records of the pages that succeeded (stated as the claim has it).
C28_PageFailureIsolated ==
    (SomePageFailed /\ epc = "done") =>
        /\ response.kind = "data"
        /\ \A r \in SucceededRecords :
               \E j \in 1..Len(response.data) : OriginalOf(response.data[j]) = r

\* ------------------------------------------------------------------------
\* The durable cache and the display flags: properties
\* ------------------------------------------------------------------------

\* C29: the stored dataset and the stored timestamp were written by the same
\* cycle, and a Degraded cycle shows the dataset with the timestamp of the
\* fetch that stored it (stated as the claim has it).
C29_CacheEntriesFromSameCycle ==
    /\ (storage.data # Null /\ storage.time # Null) => writtenBy.data = writtenBy.time
    /\ (CycleOver /\ usingCachedData) => cacheTimestamp = Iso(writtenBy.data)

\* C30: whenever no cycle is in flight, usingCachedData is true exactly when
\* cacheTimestamp is non-null, and usingCachedData implies that data and error
\* are both non-null (stated as the claim has it).
C30_DisplayFlagsConsistent ==
    ~loading =>
        /\ usingCachedData <=> (cacheTimestamp # Null)
        /\ usingCachedData => (data # Null /\ error # Null)

\* the half of C30 that reads from usingCachedData to the other three
C30_CachedDataHasTimestampDataAndError ==
    (~loading /\ usingCachedData) =>
        (cacheTimestamp # Null /\ data # Null /\ error # Null)
====
